---- MODULE Spec2Model ----
(***************************************************************************)
(* Model of the prompt-embedding scripts of excel-review-electron:         *)
(*   scripts/update_embeddings.py  the incremental update of               *)
(*                                 text-embeddings.json                    *)
(*   scripts/test_season.py        the clothing-season decision            *)
(* and of the store-backed classification the design describes.            *)
(***************************************************************************)
EXTENDS Integers, Sequences, FiniteSets, TLC

VARIABLES
    pc,          \* position of update_embeddings.py: idle, remove, upsert, save, dump, done, failed, crashed
    file,        \* electron/models/text-embeddings.json on disk
    store,       \* existing_embeddings: ordered dict, a sequence of [k, v]
    new_texts,   \* the list new_texts of the revision that runs
    old_texts,   \* the list old_texts_to_remove of the revision that runs
    idx,         \* index of the running loop (remove, upsert, dump)
    calls,       \* texts the text encoder was invoked for in this run, in order
    raw_out,     \* what the encoder returned in the last upsert iteration, <<>> if it was not invoked
    loaded,      \* existing_embeddings as it was right after the load block
    fileBefore,  \* the file as it was when the save block was entered
    scores,      \* test_season.py: the similarity of the image to each prompt
    result,      \* test_season.py: the printed result, [label, score]
    cpc,         \* classification: validate, score, decide, done, error
    cstore,      \* classification: the loaded Embedding Store (read-only)
    image,       \* classification: the image embedding
    gscores,     \* classification: group scores computed so far
    cresult      \* classification: the Classification Result or the error

vars == <<pc, file, store, new_texts, old_texts, idx, calls, raw_out, loaded, fileBefore,
          scores, result, cpc, cstore, image, gscores, cresult>>

updVars == <<pc, file, store, new_texts, old_texts, idx, calls, raw_out, loaded, fileBefore>>
seasonVars == <<scores, result>>
classVars == <<cpc, cstore, image, gscores, cresult>>

---------------------------------------------------------------------------
(* Bounds of the model *)

\* longest new_texts / old_texts_to_remove list of a revision
MaxList == 2

\* prompt texts
Texts == {"p1", "p2"}

---------------------------------------------------------------------------
(* Vectors: fixed-point numbers, Scale stands for 1.0 *)

Scale == 100 * 100
\* IEEE not-a-number (0.0 / 0.0); every other component of the model is >= 0
NaN == 0 - 1
\* dimension of the embedding vectors
Dim == 2

RECURSIVE SumSq(_)
SumSq(v) == IF v = <<>> THEN 0 ELSE Head(v) * Head(v) + SumSq(Tail(v))

RECURSIVE SqrtBetween(_, _, _)
SqrtBetween(n, lo, hi) ==
    IF lo >= hi THEN lo
    ELSE LET mid == (lo + hi + 1) \div 2
         IN IF mid * mid <= n THEN SqrtBetween(n, mid, hi)
                              ELSE SqrtBetween(n, lo, mid - 1)

HasNaN(v) == \E i \in DOMAIN v : v[i] = NaN

\* text_embeds.norm(dim=-1, keepdim=True)
Norm(v) == IF HasNaN(v) THEN NaN ELSE SqrtBetween(SumSq(v), 0, 2 * Scale)

\* x / n in floating point: 0/0 is NaN, no exception is raised
Div(x, n) == IF x = NaN \/ n = NaN \/ n = 0 THEN NaN ELSE (x * Scale) \div n

\* text_embeds / text_embeds.norm(dim=-1, keepdim=True)
Normalize(v) == [i \in DOMAIN v |-> Div(v[i], Norm(v))]

\* a raw output of the text encoder, padded to the dimension
Raw(a, b) == [i \in 1..Dim |-> IF i = 1 THEN a ELSE IF i = 2 THEN b ELSE 0]

\* what model.get_text_features may return for a prompt
EncoderOutputs == {Raw(3, 4), Raw(5, 12), Raw(0, 0)}

---------------------------------------------------------------------------
(* existing_embeddings: a Python dict, ordered by insertion *)

Keys(s) == {s[i].k : i \in DOMAIN s}
HasKey(s, t) == t \in Keys(s)
Get(s, t) == s[CHOOSE i \in DOMAIN s : s[i].k = t].v
\* del d[t]
Del(s, t) == SelectSeq(s, LAMBDA e : e.k # t)
\* d[t] = v
Put(s, t, v) == IF HasKey(s, t)
                THEN [i \in DOMAIN s |-> IF s[i].k = t THEN [k |-> t, v |-> v] ELSE s[i]]
                ELSE Append(s, [k |-> t, v |-> v])

Entry(t, v) == [k |-> t, v |-> v]

(* the persisted file *)
Absent == [exists |-> FALSE, entries |-> <<>>, complete |-> FALSE]
Written(s) == [exists |-> TRUE, entries |-> s, complete |-> TRUE]
\* open(EMBEDDINGS_PATH, "w"): the file exists and is empty
Truncated == [exists |-> TRUE, entries |-> <<>>, complete |-> FALSE]

\* the files the script may find when it is first run
InitFiles ==
    { Absent,
      Written(<<>>),
      Written(<<Entry("p1", Normalize(Raw(3, 4)))>>),
      Written(<<Entry("p1", Normalize(Raw(3, 4))), Entry("p2", Normalize(Raw(5, 12)))>>),
      Written(<<Entry("p1", Raw(3, 4))>>),
      Written(<<Entry("p1", Normalize(Raw(3, 4))), Entry("p2", <<Scale>>)>>) }

\* the lists a revision of the script may declare
RECURSIVE ListsUpTo(_)
ListsUpTo(n) == IF n = 0 THEN {<<>>}
                ELSE LET shorter == ListsUpTo(n - 1)
                     IN shorter \cup {Append(l, t) : l \in shorter, t \in Texts}
TextLists == ListsUpTo(MaxList)

---------------------------------------------------------------------------
(* update_embeddings.py *)

Running == pc \in {"remove", "upsert", "save", "dump"}
\* no process of the script exists: it may be run (again)
Stopped == pc \in {"idle", "failed", "crashed"}

\* json.load(f) succeeds on a complete JSON document only
Parses(f) == f.complete

\* lines 80-85, the file is absent or parses
LoadExisting(N, R) ==
    /\ Stopped
    /\ ~file.exists \/ Parses(file)
    /\ store' = IF file.exists THEN file.entries ELSE <<>>
    /\ loaded' = store'
    /\ new_texts' = N
    /\ old_texts' = R
    /\ calls' = <<>>
    /\ raw_out' = <<>>
    /\ idx' = 1
    /\ fileBefore' = Absent
    /\ pc' = "remove"
    /\ UNCHANGED file

\* lines 82-84, json.load raises on a truncated file and the script ends there
LoadFails ==
    /\ Stopped
    /\ file.exists /\ ~Parses(file)
    /\ store' = <<>>
    /\ loaded' = <<>>
    /\ new_texts' = <<>>
    /\ old_texts' = <<>>
    /\ calls' = <<>>
    /\ raw_out' = <<>>
    /\ idx' = 1
    /\ fileBefore' = Absent
    /\ pc' = "failed"
    /\ UNCHANGED file

\* mutant: the delete is lost
RemoveOneNever(s, t) == s

\* lines 89-90
RemoveOne(s, t) == IF HasKey(s, t) THEN Del(s, t) ELSE s

\* lines 88-91, one iteration
RemoveStep ==
    /\ pc = "remove"
    /\ idx <= Len(old_texts)
    /\ store' = RemoveOne(store, old_texts[idx])
    /\ idx' = idx + 1
    /\ UNCHANGED <<pc, file, new_texts, old_texts, calls, raw_out, loaded, fileBefore>>

\* the remove loop ends
RemoveDone ==
    /\ pc = "remove"
    /\ idx > Len(old_texts)
    /\ pc' = "upsert"
    /\ idx' = 1
    /\ UNCHANGED <<file, store, new_texts, old_texts, calls, raw_out, loaded, fileBefore>>

\* mutant: the "already present" test is lost, every text is encoded
NeedsEncodeAlways(s, t) == TRUE

\* line 96, negated: the text is encoded
NeedsEncode(s, t) == ~HasKey(s, t)

\* lines 100-105
Insert(s, t, raw) == Put(s, t, Normalize(raw))

\* mutant: the loop of convert_clip.py, which recomputes every text
UpsertOneRecompute(s, t, raw) == Insert(s, t, raw)

\* lines 96-105, one iteration with the encoder returning raw
UpsertOne(s, t, raw) == IF NeedsEncode(s, t) THEN Insert(s, t, raw) ELSE s

\* lines 95-106, one iteration
UpsertStep ==
    /\ pc = "upsert"
    /\ idx <= Len(new_texts)
    /\ LET t == new_texts[idx]
       IN IF NeedsEncode(store, t)
          THEN \E raw \in EncoderOutputs :
                  /\ store' = UpsertOne(store, t, raw)
                  /\ calls' = Append(calls, t)
                  /\ raw_out' = raw
          ELSE /\ store' = UpsertOne(store, t, <<>>)
               /\ calls' = calls
               /\ raw_out' = <<>>
    /\ idx' = idx + 1
    /\ UNCHANGED <<pc, file, new_texts, old_texts, loaded, fileBefore>>

\* the upsert loop ends
UpsertDone ==
    /\ pc = "upsert"
    /\ idx > Len(new_texts)
    /\ pc' = "save"
    /\ UNCHANGED <<file, store, new_texts, old_texts, idx, calls, raw_out, loaded, fileBefore>>

\* line 109: open(EMBEDDINGS_PATH, "w") truncates the destination
SaveOpen ==
    /\ pc = "save"
    /\ fileBefore' = file
    /\ file' = Truncated
    /\ idx' = 1
    /\ pc' = "dump"
    /\ UNCHANGED <<store, new_texts, old_texts, calls, raw_out, loaded>>

\* line 110: json.dump writes the next entry
DumpEntry ==
    /\ pc = "dump"
    /\ idx <= Len(store)
    /\ file' = [file EXCEPT !.entries = Append(@, store[idx])]
    /\ idx' = idx + 1
    /\ UNCHANGED <<pc, store, new_texts, old_texts, calls, raw_out, loaded, fileBefore>>

\* lines 110-111: json.dump writes the closing brace, the with block closes the file
DumpEnd ==
    /\ pc = "dump"
    /\ idx > Len(store)
    /\ file' = [file EXCEPT !.complete = TRUE]
    /\ pc' = "done"
    /\ UNCHANGED <<store, new_texts, old_texts, idx, calls, raw_out, loaded, fileBefore>>

\* the process is killed while it runs: its memory is gone, the file stays as it is
Crash ==
    /\ Running
    /\ pc' = "crashed"
    /\ store' = <<>>
    /\ new_texts' = <<>>
    /\ old_texts' = <<>>
    /\ idx' = 1
    /\ calls' = <<>>
    /\ raw_out' = <<>>
    /\ loaded' = <<>>
    /\ fileBefore' = Absent
    /\ UNCHANGED file

\* line 113: the script ends, its memory is gone
Exit ==
    /\ pc = "done"
    /\ pc' = "idle"
    /\ store' = <<>>
    /\ new_texts' = <<>>
    /\ old_texts' = <<>>
    /\ idx' = 1
    /\ calls' = <<>>
    /\ raw_out' = <<>>
    /\ loaded' = <<>>
    /\ fileBefore' = Absent
    /\ UNCHANGED file

UpdInit ==
    /\ pc = "idle"
    /\ file \in InitFiles
    /\ store = <<>>
    /\ new_texts = <<>>
    /\ old_texts = <<>>
    /\ idx = 1
    /\ calls = <<>>
    /\ raw_out = <<>>
    /\ loaded = <<>>
    /\ fileBefore = Absent

UpdIdle ==
    /\ pc = "idle"
    /\ file = Absent
    /\ store = <<>>
    /\ new_texts = <<>>
    /\ old_texts = <<>>
    /\ idx = 1
    /\ calls = <<>>
    /\ raw_out = <<>>
    /\ loaded = <<>>
    /\ fileBefore = Absent

---------------------------------------------------------------------------
(* test_season.py *)

\* line 63: scores[:4], the four season prompts; scores[4] is "no person"
NumPrimary == 4
\* lines 25-31: len(CLOTHING_PROMPTS)
NumPrompts == 5

\* line 33
SEASONS == <<"winter", "autumn", "summer", "spring", "no_person">>

\* similarities np.dot may yield (fixed point)
ScoreVals == {2000, 2500, 3000}
ScoreVectors == [1..NumPrompts -> ScoreVals]

\* np.argmax over s[1..n]: scans left to right, best is replaced on a strictly greater value
RECURSIVE ArgMaxScan(_, _, _, _)
ArgMaxScan(s, n, i, best) ==
    IF i > n THEN best
    ELSE ArgMaxScan(s, n, i + 1, IF s[i] > s[best] THEN i ELSE best)

\* mutant: the last greatest value instead of the first
RECURSIVE ArgMaxLastScan(_, _, _, _)
ArgMaxLastScan(s, n, i, best) ==
    IF i > n THEN best
    ELSE ArgMaxLastScan(s, n, i + 1, IF s[i] >= s[best] THEN i ELSE best)
ArgMaxLast(s, n) == ArgMaxLastScan(s, n, 2, 1)

\* line 63: np.argmax(scores[:4])
ArgMax(s, n) == ArgMaxScan(s, n, 2, 1)

\* mutant: the override wins on equality too
OverrideWinsOnTie(no_person_score, max_clothing_score) == no_person_score >= max_clothing_score

\* line 67
OverrideWins(no_person_score, max_clothing_score) == no_person_score > max_clothing_score

\* lines 63-70
Decide(s) ==
    LET max_idx == ArgMax(s, NumPrimary)
        no_person_score == s[NumPrompts]
        max_clothing_score == s[max_idx]
    IN IF OverrideWins(no_person_score, max_clothing_score)
       THEN [label |-> SEASONS[NumPrompts], score |-> no_person_score]
       ELSE [label |-> SEASONS[max_idx], score |-> max_clothing_score]

\* lines 47-70: test_image on an image whose similarities are sc
TestImage(sc) ==
    /\ scores' = sc
    /\ result' = Decide(sc)

SeasonIdle == scores = <<>> /\ result = <<>>

---------------------------------------------------------------------------
(* Classification against the Embedding Store: Category Schema, Similarity *)
(* Scorer, Decision Engine                                                  *)

\* the category: ordered groups, the primary ones first, then the overrides
Groups ==
    << [label |-> "summer", prompts |-> <<"c1">>, override |-> FALSE],
       [label |-> "winter", prompts |-> <<"c2", "c3">>, override |-> FALSE],
       [label |-> "no_person", prompts |-> <<"c4">>, override |-> TRUE] >>

\* prompts of the schema in declaration order
RECURSIVE Flatten(_)
Flatten(gs) == IF gs = <<>> THEN <<>> ELSE Head(gs).prompts \o Flatten(Tail(gs))

UnitVecs == {Normalize(Raw(3, 4)), Normalize(Raw(4, 3)), Normalize(Raw(5, 0))}

\* the stores classification may be given: some of the schema's prompts, unit vectors
RECURSIVE StoresOver(_)
StoresOver(ts) ==
    IF ts = <<>> THEN {<<>>}
    ELSE LET rest == StoresOver(Tail(ts))
         IN rest \cup {<<Entry(Head(ts), v)>> \o s : v \in UnitVecs, s \in rest}

RECURSIVE DotFrom(_, _, _)
DotFrom(a, b, i) == IF i > Len(a) THEN 0 ELSE a[i] * b[i] + DotFrom(a, b, i + 1)
\* cosine similarity of unit vectors: the dot product
Dot(a, b) == DotFrom(a, b, 1) \div Scale

\* first prompt of ts that is no key of s, or "" when all resolve
RECURSIVE FirstMissing(_, _)
FirstMissing(ts, s) ==
    IF ts = <<>> THEN ""
    ELSE IF ~HasKey(s, Head(ts)) THEN Head(ts) ELSE FirstMissing(Tail(ts), s)

\* mutant: only the first group's prompts are validated
SchemaMissingFirstGroup(s) == FirstMissing(Groups[1].prompts, s)

\* validate(schema, store)
SchemaMissing(s) == FirstMissing(Flatten(Groups), s)

RECURSIVE MaxSim(_, _, _)
MaxSim(img, ts, s) ==
    LET d == Dot(img, Get(s, Head(ts)))
    IN IF Len(ts) = 1 THEN d
       ELSE LET m == MaxSim(img, Tail(ts), s) IN IF d >= m THEN d ELSE m

\* score(image_embedding, group, store): the maximum over the group's prompts
Score(img, g, s) == MaxSim(img, g.prompts, s)

NoResult == [label |-> "", score |-> 0, error |-> ""]

\* validate runs first: a missing prompt raises MissingPromptError
Validate ==
    /\ cpc = "validate"
    /\ IF SchemaMissing(cstore) # ""
       THEN /\ cpc' = "error"
            /\ cresult' = [NoResult EXCEPT !.error = "MissingPromptError"]
       ELSE /\ cpc' = "score"
            /\ cresult' = cresult
    /\ UNCHANGED <<cstore, image, gscores>>

\* the scorer scores the next group
ScoreGroup ==
    /\ cpc = "score"
    /\ Len(gscores) < Len(Groups)
    /\ gscores' = Append(gscores, Score(image, Groups[Len(gscores) + 1], cstore))
    /\ UNCHANGED <<cpc, cstore, image, cresult>>

\* index of the first greatest score among the groups that are (not) overrides, 0 if none
RECURSIVE BestFrom(_, _, _, _)
BestFrom(sc, ov, i, best) ==
    IF i > Len(sc) THEN best
    ELSE BestFrom(sc, ov, i + 1,
                  IF Groups[i].override = ov /\ (best = 0 \/ sc[i] > sc[best]) THEN i ELSE best)

\* decide(score_vector, policy)
DecideGroups(sc) ==
    LET p == BestFrom(sc, FALSE, 1, 0)
        o == BestFrom(sc, TRUE, 1, 0)
    IN IF p = 0 THEN [NoResult EXCEPT !.error = "EmptyScoreVectorError"]
       ELSE IF o # 0 /\ sc[o] > sc[p]
            THEN [label |-> Groups[o].label, score |-> sc[o], error |-> ""]
            ELSE [label |-> Groups[p].label, score |-> sc[p], error |-> ""]

\* the decision engine resolves the score vector
DecideStep ==
    /\ cpc = "score"
    /\ Len(gscores) = Len(Groups)
    /\ cresult' = DecideGroups(gscores)
    /\ cpc' = "done"
    /\ UNCHANGED <<cstore, image, gscores>>

ClassInit ==
    /\ cpc = "validate"
    /\ cstore \in StoresOver(Flatten(Groups))
    /\ image \in UnitVecs
    /\ gscores = <<>>
    /\ cresult = NoResult

ClassIdle ==
    /\ cpc = "off"
    /\ cstore = <<>>
    /\ image = <<>>
    /\ gscores = <<>>
    /\ cresult = NoResult

---------------------------------------------------------------------------
(* Specifications *)

Init == UpdInit /\ SeasonIdle /\ ClassIdle

Next ==
    \/ \E N \in TextLists, R \in TextLists : LoadExisting(N, R) /\ UNCHANGED <<seasonVars, classVars>>
    \/ LoadFails /\ UNCHANGED <<seasonVars, classVars>>
    \/ RemoveStep /\ UNCHANGED <<seasonVars, classVars>>
    \/ RemoveDone /\ UNCHANGED <<seasonVars, classVars>>
    \/ UpsertStep /\ UNCHANGED <<seasonVars, classVars>>
    \/ UpsertDone /\ UNCHANGED <<seasonVars, classVars>>
    \/ SaveOpen /\ UNCHANGED <<seasonVars, classVars>>
    \/ DumpEntry /\ UNCHANGED <<seasonVars, classVars>>
    \/ DumpEnd /\ UNCHANGED <<seasonVars, classVars>>
    \/ Crash /\ UNCHANGED <<seasonVars, classVars>>
    \/ Exit /\ UNCHANGED <<seasonVars, classVars>>

Spec == Init /\ [][Next]_vars

\* test_season.py on its own
SeasonInit == UpdIdle /\ SeasonIdle /\ ClassIdle
SeasonNext == \E sc \in ScoreVectors : TestImage(sc) /\ UNCHANGED <<updVars, classVars>>
SpecSeason == SeasonInit /\ [][SeasonNext]_vars

\* one classification call
ClassifyInit == UpdIdle /\ SeasonIdle /\ ClassInit
ClassifyNext ==
    \/ Validate /\ UNCHANGED <<updVars, seasonVars>>
    \/ ScoreGroup /\ UNCHANGED <<updVars, seasonVars>>
    \/ DecideStep /\ UNCHANGED <<updVars, seasonVars>>
SpecClassify == ClassifyInit /\ [][ClassifyNext]_vars

---------------------------------------------------------------------------
(* Properties *)

Range(l) == {l[i] : i \in DOMAIN l}

\* an iteration of the upsert loop is taken
UpsertIteration == pc = "upsert" /\ pc' = "upsert" /\ idx' = idx + 1

\* C1: an upsert invokes the encoder for a text exactly when the text is not a key
\* of the store at that moment: on a key the encoder is not invoked and the store
\* (the stored vector) is unchanged; a text removed earlier in the run and not
\* inserted since is encoded again.
UpsertEncodesIffAbsent ==
    [][UpsertIteration =>
         LET t == new_texts[idx]
         IN /\ (calls' # calls) <=> ~HasKey(store, t)
            /\ calls' # calls => calls' = Append(calls, t) /\ HasKey(store', t)
            /\ HasKey(store, t) => store' = store
            /\ (t \in Range(old_texts) /\ t \notin Range(SubSeq(new_texts, 1, idx - 1)))
                  => calls' = Append(calls, t)]_vars

\* C1 witness: a key of the loaded store was removed and encoded again, and
\* another text of new_texts was skipped
RemovedThenReencoded ==
    /\ pc = "save"
    /\ \E t \in Range(calls) : HasKey(loaded, t) /\ t \in Range(old_texts)
    /\ \E t \in Range(new_texts) : t \notin Range(calls)

\* upsert(S, T) with the encoder enc: the loop of lines 95-106
RECURSIVE UpsertAll(_, _, _)
UpsertAll(s, ts, enc) ==
    IF ts = <<>> THEN s
    ELSE UpsertAll(UpsertOne(s, Head(ts), enc[Head(ts)]), Tail(ts), enc)

Encoders == [Texts -> EncoderOutputs]

\* C2: upsert is idempotent: once the upsert loop has run over new_texts, running
\* it again over new_texts, whatever the encoder now returns, leaves the store as
\* it is (same keys, same vectors, same order).
UpsertIdempotent ==
    pc = "save" => \A enc \in Encoders : UpsertAll(store, new_texts, enc) = store

\* C2 witness: the upsert loop has run, it encoded a text and skipped another
UpsertedSomething ==
    /\ pc = "save"
    /\ calls # <<>>
    /\ \E t \in Range(new_texts) : t \notin Range(calls)

\* C3: the destination is never partially written: it is absent or complete, and
\* during a save it holds the previous store or the new one.
SaveNeverPartial ==
    /\ file.exists => file.complete
    /\ pc = "dump" => file \in {fileBefore, Written(store)}

ConsistentLengths(s) == \A i \in DOMAIN s : Len(s[i].v) = Dim

\* the 1e-4 tolerance of the unit-norm invariant
Tol == Scale \div (100 * 100)

\* | ||v|| - 1 | <= 1e-4
IsUnit(v) == /\ ~HasNaN(v)
             /\ Norm(v) - Scale <= Tol
             /\ Scale - Norm(v) <= Tol

\* C4: every vector held in the store has unit L2 norm within the tolerance.
StoredVectorsUnit == \A i \in DOMAIN store : IsUnit(store[i].v)

\* C7: a file with an entry of another length than D is rejected by load: the
\* run goes on only with a loaded store whose vectors all have length D.
LoadRejectsBadLengths == Running \/ pc = "done" => ConsistentLengths(loaded)

\* C8: when the encoder returns a vector of norm zero the upsert fails and no
\* entry is stored for that text.
ZeroVectorUpsertFails ==
    (raw_out # <<>> /\ Norm(raw_out) = 0)
        => pc = "failed" /\ ~HasKey(store, calls[Len(calls)])

\* C10: a completed run persists exactly the keys (keys(S) \ R) \cup N, the kept
\* keys with the vectors they had in S, the encoder having been invoked once for
\* each text of N \ (keys(S) \ R) and for no other; an absent file loads as the
\* empty store.
RunFrame ==
    /\ (pc \in {"remove", "upsert", "save"} /\ ~file.exists) => loaded = <<>>
    /\ pc = "done" =>
         LET kept == Keys(loaded) \ Range(old_texts)
         IN /\ file = Written(store)
            /\ Keys(file.entries) = kept \cup Range(new_texts)
            /\ \A t \in kept : Get(file.entries, t) = Get(loaded, t)
            /\ Range(calls) = Range(new_texts) \ kept
            /\ Len(calls) = Cardinality(Range(calls))

\* C10 witness: a run that kept a key, removed a key and encoded a text is done
RunKeptRemovedEncoded ==
    /\ pc = "done"
    /\ Keys(loaded) \ Range(old_texts) # {}
    /\ Keys(loaded) \cap Range(old_texts) # {}
    /\ calls # <<>>

\* the greatest of the primary scores
PrimaryMax(s) == CHOOSE m \in {s[i] : i \in 1..NumPrimary} : \A i \in 1..NumPrimary : s[i] <= m

\* C5: the result is the override's label and score exactly when the override's
\* score is strictly greater than primary_max; otherwise, on equality too, it is a
\* primary label that scores primary_max, with score primary_max.
OverrideIffStrictlyGreater ==
    result # <<>> =>
        LET pm == PrimaryMax(scores)
            ov == scores[NumPrompts]
        IN /\ (result.label = SEASONS[NumPrompts]) <=> ov > pm
           /\ ov > pm => result.score = ov
           /\ ov <= pm => /\ result.score = pm
                          /\ \E i \in 1..NumPrimary : result.label = SEASONS[i] /\ scores[i] = pm

\* C5 witness: the override's score equals primary_max and the primary label is given
OverrideTiesPrimary ==
    /\ result # <<>>
    /\ scores[NumPrompts] = PrimaryMax(scores)
    /\ result.label # SEASONS[NumPrompts]

\* the primary groups that score primary_max
TopPrimaries(s) == {i \in 1..NumPrimary : s[i] = PrimaryMax(s)}

\* C6: when several primary groups share the greatest score and the override does
\* not win, the result is the first of them in declaration order.
FirstDeclaredOnTie ==
    (result # <<>> /\ Cardinality(TopPrimaries(scores)) >= 2
                   /\ scores[NumPrompts] <= PrimaryMax(scores))
        => \E i \in TopPrimaries(scores) :
              /\ result.label = SEASONS[i]
              /\ \A j \in TopPrimaries(scores) : i <= j

\* C6 witness: the second and third primary groups tie above the first
TieNotAtFirst ==
    /\ result # <<>>
    /\ TopPrimaries(scores) = {2, 3}
    /\ result.label = SEASONS[2]

\* a prompt text of some group of the category is no key of the store
SomePromptMissing ==
    \E g \in DOMAIN Groups : \E i \in DOMAIN Groups[g].prompts :
        ~HasKey(cstore, Groups[g].prompts[i])

\* C9: with a prompt of the category missing from the store, classification ends
\* in MissingPromptError with no score computed and no label; a classification
\* that gives a label has scored every group.
MissingPromptFailsClosed ==
    /\ SomePromptMissing =>
          /\ cpc \in {"validate", "error"}
          /\ gscores = <<>>
          /\ cresult.label = ""
          /\ cpc = "error" => cresult.error = "MissingPromptError"
    /\ cresult.label # "" => Len(gscores) = Len(Groups)

\* C9 witness: the first group resolves, a later prompt is missing, the call failed
LaterPromptMissing ==
    /\ cpc = "error"
    /\ HasKey(cstore, "c1")
    /\ ~HasKey(cstore, "c4")
    /\ cresult.error = "MissingPromptError"

====
